---- MODULE Spec2Model ----
(***************************************************************************)
(* yt-monitor: the item pipeline (discovery poll, three-tier transcript    *)
(* extraction, summarization, publish), the startup seeder and the SQLite  *)
(* store that ties them together, as a state machine.                      *)
(***************************************************************************)
EXTENDS Integers, Sequences, FiniteSets, TLC

(***************************************************************************)
(* Bounds of the model.                                                    *)
(***************************************************************************)
\* process starts (container starts) in one behaviour
MaxStarts == 2
\* poll cycles per process run
MaxCycles == 2
\* entries one feed fetch returns
MaxFeedLen == 2
\* live destination entries counted per video ("Cap or more")
CardCap == 2
\* summarizer calls counted per video ("Cap or more")
CallCap == 2

(***************************************************************************)
(* Program constants.                                                      *)
(***************************************************************************)
SEED_DEPTH == 3
MAX_VIDEO_AGE_DAYS == 3
TRANSCRIPT_MAX_CHARS == 400000
WHISPER_ENABLED == FALSE

\* config.CHANNELS, in dict order, and the videos each channel's feed can list
Channels == <<"c1", "c2">>
Videos == {"v1", "v2"}
ChannelOf(v) == IF v = "v1" THEN "c1" ELSE "c2"
Title(v) == "T"

\* SQL NULL / Python None
Null == "NULL"
\* the row of a video_id that is not in the videos table
NoRow == [present |-> FALSE]

\* published time of a feed entry, in days before now
RecentDays == 1
OldDays == 10
FeedAges == {RecentDays, OldDays}

Min(a, b) == IF a < b THEN a ELSE b

(***************************************************************************)
(* transcripts.py                                                          *)
(***************************************************************************)
\* Python None as a TranscriptResult
NoResult == [tier |-> 0, text |-> Null]

\* str.strip() on blanks
RECURSIVE LStrip(_)
LStrip(s) == IF Len(s) > 0 /\ SubSeq(s, 1, 1) = " " THEN LStrip(SubSeq(s, 2, Len(s))) ELSE s
RECURSIVE RStrip(_)
RStrip(s) == IF Len(s) > 0 /\ SubSeq(s, Len(s), Len(s)) = " " THEN RStrip(SubSeq(s, 1, Len(s) - 1)) ELSE s
Strip(s) == RStrip(LStrip(s))

\* " ".join(snippet.text.strip() for snippet in fetched if snippet.text.strip())
RECURSIVE JoinSnippets(_)
JoinSnippets(snips) ==
    IF snips = <<>> THEN ""
    ELSE LET h == Strip(Head(snips))
             r == JoinSnippets(Tail(snips))
         IN  IF h = "" THEN r
             ELSE IF r = "" THEN h
             ELSE h \o " " \o r

\* text[:config.TRANSCRIPT_MAX_CHARS]
Truncate(s) == SubSeq(s, 1, Min(Len(s), TRANSCRIPT_MAX_CHARS))

\* an exception leaving a try body
Raised == [tier |-> -1, text |-> Null]

\* _fetch_tier1, the body of its try: the import fails ("missing"), ytt.list
\* raises TranscriptsDisabled / NoTranscriptFound / VideoUnavailable
\* ("permanent") or anything else ("transient"), no transcript is found in
\* any language ("none"), or the snippets are fetched and joined ("ok")
Tier1Body(t1) ==
    IF t1.kind = "ok"
    THEN [tier |-> 1, text |-> Truncate(JoinSnippets(t1.snippets))]
    ELSE IF t1.kind = "none" THEN NoResult
    ELSE Raised

\* _fetch_tier1: the catch-all turns every exception into None
FetchTier1(t1) == IF Tier1Body(t1) = Raised THEN NoResult ELSE Tier1Body(t1)

\* _fetch_tier1: the requests for the caption list (ytt.list) one call makes.
\* There is no loop around it: one request, none when the import failed.
Tier1Attempts(t1) == IF t1.kind = "missing" THEN 0 ELSE 1

\* _fetch_tier2, the body of its try: yt_dlp is missing or no file was
\* produced (return None), the download or the transcription raises, or the
\* transcription returns a text (None when it is empty)
Tier2Body(t2) ==
    IF t2.kind \in {"missing_dependency", "no_file"} THEN NoResult
    ELSE IF t2.kind = "raises" THEN Raised
    ELSE IF t2.text = Null \/ t2.text = "" THEN NoResult
    ELSE [tier |-> 2, text |-> Truncate(t2.text)]

\* _fetch_tier2: None unless WHISPER_ENABLED; the catch-all turns every
\* exception into None
FetchTier2(t2) ==
    IF ~t2.enabled THEN NoResult
    ELSE IF Tier2Body(t2) = Raised THEN NoResult
    ELSE Tier2Body(t2)

\* _fetch_tier3 without its labels and without the no-description marker
FetchTier3Raw(title, description) ==
    [tier |-> 3, text |-> title \o description]

\* _fetch_tier3
FetchTier3(title, description) ==
    [tier |-> 3,
     text |-> "Video Title: " \o title \o "\n\nDescription:\n"
              \o (IF description = "" THEN "(no description available)" ELSE description)]

\* `if result:` on an Optional[TranscriptResult]: a dataclass instance is
\* truthy whatever its text, only None is falsy.
Truthy(result) == result # NoResult

\* get_transcript
GetTranscript(t1, t2, title, description) ==
    IF Truthy(FetchTier1(t1)) THEN FetchTier1(t1)
    ELSE IF Truthy(FetchTier2(t2)) THEN FetchTier2(t2)
    ELSE FetchTier3(title, description)

\* get_transcript: the tiers whose fetch function it calls, in call order
TiersAttempted(t1, t2) ==
    IF Truthy(FetchTier1(t1)) THEN <<1>>
    ELSE IF Truthy(FetchTier2(t2)) THEN <<1, 2>>
    ELSE <<1, 2, 3>>

(***************************************************************************)
(* State.                                                                  *)
(***************************************************************************)
VARIABLES
    backend,        \* config.OUTPUT_BACKEND: "trello" or "dashboard"
    pc,             \* where the process is: "down" when it is not running,
                    \* "exited" when it has ended by itself
    starts,         \* process starts so far
    cycles,         \* poll cycles started by the running process
    videos,         \* the videos table: video_id -> row (NoRow when absent)
    cards,          \* destination: entries (open or archived alike) that
                    \* reference each video and were not deleted
    summarized,     \* history: completed summarizer calls per video
    trello_ids,     \* run_seed: the dedup set read at the start of the seed
    seen_this_run,  \* run_seed: videos seeded by this run
    chan,           \* index into Channels of the channel being seeded / polled
    entries,        \* entries of the current fetch still to look at
    new_videos,     \* run_once: candidates of this cycle not yet finished
    event,          \* history: what the last step did
    call,           \* a call of one function on its own (get_transcript,
                    \* a database helper, _is_too_old): its arguments and
                    \* what the collaborators answer
    result,         \* what that call returned
    channels,       \* the channels table: channel_id -> row; Untracked in
                    \* the specifications that leave the table out
    shutdown_requested, \* monitor._shutdown_requested
    credentials     \* the settings of config.py that are set (non-empty)

vars == <<backend, pc, starts, cycles, videos, cards, summarized,
          trello_ids, seen_this_run, chan, entries, new_videos, event,
          call, result, channels, shutdown_requested, credentials>>

\* the channels table left out of a specification: nothing but the poll
\* writes it and nothing reads it
Untracked == <<>>
\* the settings _validate_startup and TrelloBackend.validate_config ask for
RequiredKeys == {"ANTHROPIC_API_KEY", "TRELLO_API_KEY", "TRELLO_TOKEN",
                 "TRELLO_LIST_ID"}

\* NULL in an integer column (transcript_tier, tokens_*)
NullInt == 0
\* an entry without a published time; published_at NULL
NoDate == -1

Ev(op, vid) == [op |-> op, vid |-> vid]

\* no get_transcript call is under way / has returned
NoCall == [kind |-> "none"]
NotCalled == [tier |-> 0, text |-> "not called"]

Range(s) == {s[i] : i \in DOMAIN s}
Take(s, n) == SubSeq(s, 1, Min(Len(s), n))
Bump(n, cap) == IF n < cap THEN n + 1 ELSE n

(***************************************************************************)
(* database.py                                                             *)
(***************************************************************************)
\* is_video_known that does not count a row with a failed status
IsVideoKnownUnlessFailed(st, vid) ==
    /\ st[vid].present
    /\ st[vid].summary_status # "failed"
    /\ st[vid].output_status # "failed"

\* is_video_known
IsVideoKnown(st, vid) == st[vid].present

\* insert_video as INSERT OR REPLACE: a known id gets a fresh row
InsertVideoReplace(st, vid, published) ==
    [st EXCEPT ![vid] =
        [present |-> TRUE, channel_id |-> ChannelOf(vid), title |-> Title(vid),
         published_at |-> published,
         transcript_tier |-> NullInt, transcript_text |-> Null,
         summary_status |-> "pending", summary_text |-> Null,
         summary_error |-> Null, tokens_input |-> NullInt,
         tokens_output |-> NullInt,
         output_status |-> "pending", output_ref |-> Null,
         output_error |-> Null]]

\* insert_video: INSERT ... ON CONFLICT(video_id) DO NOTHING
InsertVideo(st, vid, published) ==
    IF st[vid].present THEN st
    ELSE [st EXCEPT ![vid] =
            [present |-> TRUE, channel_id |-> ChannelOf(vid), title |-> Title(vid),
             published_at |-> published,
             transcript_tier |-> NullInt, transcript_text |-> Null,
             summary_status |-> "pending", summary_text |-> Null,
             summary_error |-> Null, tokens_input |-> NullInt,
             tokens_output |-> NullInt,
             output_status |-> "pending", output_ref |-> Null,
             output_error |-> Null]]

\* update_transcript
UpdateTranscript(st, vid, tier, text) ==
    IF ~st[vid].present THEN st
    ELSE [st EXCEPT ![vid].transcript_tier = tier, ![vid].transcript_text = text]

\* update_summary: all five columns are written, the omitted ones as NULL
UpdateSummary(st, vid, status, text, error, tin, tout) ==
    IF ~st[vid].present THEN st
    ELSE [st EXCEPT ![vid].summary_status = status, ![vid].summary_text = text,
                    ![vid].summary_error = error, ![vid].tokens_input = tin,
                    ![vid].tokens_output = tout]

\* update_output that also writes the summary columns back to their defaults
UpdateOutputResetsSummary(st, vid, status, ref, error) ==
    IF ~st[vid].present THEN st
    ELSE [st EXCEPT ![vid].output_status = status, ![vid].output_ref = ref,
                    ![vid].output_error = error,
                    ![vid].summary_status = "pending", ![vid].summary_text = Null,
                    ![vid].tokens_input = NullInt, ![vid].tokens_output = NullInt]

\* update_output
UpdateOutput(st, vid, status, ref, error) ==
    IF ~st[vid].present THEN st
    ELSE [st EXCEPT ![vid].output_status = status, ![vid].output_ref = ref,
                    ![vid].output_error = error]

\* get_pending_output_videos without its output_status = 'pending' test
GetSummarizedVideos(st) ==
    {v \in Videos : st[v].present /\ st[v].summary_status = "done"}

\* get_pending_output_videos (the ids of the rows it returns)
GetPendingOutputVideos(st) ==
    {v \in Videos : st[v].present /\ st[v].summary_status = "done"
                    /\ st[v].output_status = "pending"}

\* mark_video_seen as INSERT OR REPLACE: a known id gets the done/done row
MarkVideoSeenReplace(st, vid, summary, tier) ==
    [st EXCEPT ![vid] =
        [present |-> TRUE, channel_id |-> ChannelOf(vid), title |-> Title(vid),
         published_at |-> NoDate,
         transcript_tier |-> tier, transcript_text |-> Null,
         summary_status |-> "done", summary_text |-> summary,
         summary_error |-> Null, tokens_input |-> NullInt,
         tokens_output |-> NullInt,
         output_status |-> "done", output_ref |-> Null,
         output_error |-> Null]]

\* mark_video_seen: INSERT OR IGNORE of a fully processed row
MarkVideoSeen(st, vid, summary, tier) ==
    IF st[vid].present THEN st
    ELSE [st EXCEPT ![vid] =
            [present |-> TRUE, channel_id |-> ChannelOf(vid), title |-> Title(vid),
             published_at |-> NoDate,
             transcript_tier |-> tier, transcript_text |-> Null,
             summary_status |-> "done", summary_text |-> summary,
             summary_error |-> Null, tokens_input |-> NullInt,
             tokens_output |-> NullInt,
             output_status |-> "done", output_ref |-> Null,
             output_error |-> Null]]

(***************************************************************************)
(* database.py, channel helpers.  A row of the channels table:             *)
(* last_checked_at (NeverChecked for NULL), error_count, enabled.          *)
(***************************************************************************)
NoChannel == [present |-> FALSE]
NeverChecked == -1
ChannelIds == {Channels[i] : i \in DOMAIN Channels}

\* upsert_channel: a new row gets the column defaults; on a conflict only
\* channel_name is set, and the name of a channel never changes here
UpsertChannel(tbl, c) ==
    IF tbl[c].present THEN tbl
    ELSE [tbl EXCEPT ![c] = [present |-> TRUE, last_checked_at |-> NeverChecked,
                             error_count |-> 0, enabled |-> TRUE]]

\* mark_channel_checked
MarkChannelChecked(tbl, c, now) ==
    IF tbl[c].present
    THEN [tbl EXCEPT ![c].last_checked_at = now, ![c].error_count = 0]
    ELSE tbl

\* increment_channel_error
IncrementChannelError(tbl, c) ==
    IF tbl[c].present
    THEN [tbl EXCEPT ![c].error_count = @ + 1]
    ELSE tbl

\* the table a poll step leaves, where the table is tracked
ChannelsAfter(tbl) == IF channels = Untracked THEN channels ELSE tbl

\* datetime.now() during a poll cycle: the time moves on from one cycle to
\* the next and from one process to the next
Now == starts * (MaxCycles + 1) + cycles

(***************************************************************************)
(* External collaborators: what they can answer.                           *)
(***************************************************************************)
\* feedparser.parse of a channel's feed: the entries it can list
RECURSIVE SeqsUpTo(_, _)
SeqsUpTo(S, n) ==
    IF n = 0 THEN {<<>>}
    ELSE LET shorter == SeqsUpTo(S, n - 1)
         IN  shorter \cup {Append(s, x) : s \in {t \in shorter : Len(t) = n - 1}, x \in S}

VideosOf(c) == {v \in Videos : ChannelOf(v) = c}

\* one published time per video in one fetch
Feeds(c) ==
    UNION {{[i \in DOMAIN ids |-> [video_id |-> ids[i], published |-> age[ids[i]]]]
              : ids \in SeqsUpTo(VideosOf(c), MaxFeedLen)}
              : age \in [VideosOf(c) -> FeedAges]}

\* the captions service, as the pipeline's runs see it: v1 has captions,
\* the other videos have none
Tier1Of(v) == IF v = "v1" THEN [kind |-> "ok", snippets |-> <<"hello world">>]
              ELSE [kind |-> "permanent", snippets |-> <<>>]
Tier2Config == [enabled |-> WHISPER_ENABLED, kind |-> "ok", text |-> Null]
Description(v) == ""

\* summarizer.summarize: the SummaryResult of a successful call
SummaryText == "summary"
TokensIn == 100
TokensOut == 50

(***************************************************************************)
(* output backends                                                         *)
(***************************************************************************)
\* TrelloBackend.get_existing_video_ids: cards?filter=all lists open and
\* archived cards, never deleted ones
ExistingVideoIds == {v \in Videos : cards[v] > 0}

\* _get_trello_video_ids for a DashboardBackend that had the method
GetTrelloVideoIdsAnyBackend == {ExistingVideoIds, {}}

\* seeder._get_trello_video_ids: the set, or the empty set when the backend
\* has no such method (dashboard) or the request fails
GetTrelloVideoIds ==
    IF backend = "trello" THEN {ExistingVideoIds, {}} ELSE {{}}

\* backend.publish(row) as monitor.process_video calls it: TrelloBackend.publish
\* takes keyword arguments only (TypeError), DashboardBackend returns video_id
PollPublishOutcomes ==
    IF backend = "trello" THEN {"raise"} ELSE {"ok"}

\* backend.publish(video_id=..., ...) as the seeder calls it: TrelloBackend
\* posts the card (or the request fails), DashboardBackend.publish(video)
\* takes no keyword arguments (TypeError)
SeedPublishOutcomes ==
    IF backend = "trello" THEN {"ok", "raise"} ELSE {"raise"}

(***************************************************************************)
(* Initial state: nothing is running, the table and the destination are    *)
(* empty.                                                                  *)
(***************************************************************************)
Init ==
    /\ channels = Untracked
    /\ shutdown_requested = FALSE
    /\ credentials = RequiredKeys
    /\ backend \in {"trello", "dashboard"}
    /\ pc = "down"
    /\ starts = 0
    /\ cycles = 0
    /\ videos = [v \in Videos |-> NoRow]
    /\ cards = [v \in Videos |-> 0]
    /\ summarized = [v \in Videos |-> 0]
    /\ trello_ids = {}
    /\ seen_this_run = {}
    /\ chan = 1
    /\ entries = <<>>
    /\ new_videos = <<>>
    /\ event = Ev("init", Null)
    /\ call = NoCall
    /\ result = NotCalled

SeedLocals == <<trello_ids, seen_this_run>>

(***************************************************************************)
(* monitor.main: startup                                                   *)
(***************************************************************************)
TrelloKeys == {"TRELLO_API_KEY", "TRELLO_TOKEN", "TRELLO_LIST_ID"}

\* validate_config that never raises
ValidateConfigNothing(b, creds) == {}

\* backend.validate_config: the settings the ValueError names; {} when it
\* returns (TrelloBackend checks its three settings, DashboardBackend none)
ValidateConfig(b, creds) == IF b = "trello" THEN TrelloKeys \ creds ELSE {}

\* _validate_startup: the errors list (config.CHANNELS is not empty, the
\* YouTube API and the proxy are off)
StartupErrors(b, creds) ==
    ({"ANTHROPIC_API_KEY"} \ creds) \cup ValidateConfig(b, creds)

\* main() up to the call of seeder.run_seed; _validate_startup ends the
\* process with sys.exit(1) when its errors list is not empty
Start ==
    /\ pc = "down"
    /\ starts < MaxStarts
    /\ starts' = starts + 1
    /\ IF StartupErrors(backend, credentials) # {}
       THEN /\ pc' = "exited"
            /\ event' = Ev("exit_1", Null)
       ELSE /\ pc' = "seed_init"
            /\ event' = Ev("none", Null)
    /\ cycles' = 0
    /\ chan' = 1
    /\ entries' = <<>>
    /\ new_videos' = <<>>
    /\ trello_ids' = {}
    /\ seen_this_run' = {}
    /\ shutdown_requested' = FALSE
    /\ UNCHANGED <<channels, credentials, call, result,
                   backend, videos, cards, summarized>>

\* _handle_sigterm: SIGTERM arrives while the process runs
SigTerm ==
    /\ pc \notin {"down", "exited"}
    /\ ~shutdown_requested
    /\ shutdown_requested' = TRUE
    /\ event' = Ev("sigterm", Null)
    /\ UNCHANGED <<channels, credentials, call, result,
                   backend, pc, starts, cycles, videos, cards, summarized,
                   SeedLocals, chan, entries, new_videos>>

\* the process dies (kill, container restart): only the table and the
\* destination survive
Crash ==
    /\ pc \notin {"down", "exited"}
    /\ pc' = "down"
    /\ cycles' = 0
    /\ chan' = 1
    /\ entries' = <<>>
    /\ new_videos' = <<>>
    /\ trello_ids' = {}
    /\ seen_this_run' = {}
    /\ event' = Ev("none", Null)
    /\ shutdown_requested' = FALSE
    /\ UNCHANGED <<channels, credentials, call, result,
                   backend, starts, videos, cards, summarized>>

(***************************************************************************)
(* seeder.py                                                               *)
(***************************************************************************)
\* run_seed's loops: with `rest` left of this channel's entries, on to the
\* next entry, the next channel, or out of run_seed (its locals are gone)
\* to main's loop: into the first run_once, or, when shutdown was requested,
\* to where main leaves the loop
SeedContinue(rest, seen) ==
    /\ entries' = rest
    /\ IF rest # <<>>
       THEN /\ pc' = "seed_entry"
            /\ chan' = chan
            /\ cycles' = cycles
            /\ trello_ids' = trello_ids
            /\ seen_this_run' = seen
       ELSE IF chan < Len(Channels)
       THEN /\ pc' = "seed_fetch"
            /\ chan' = chan + 1
            /\ cycles' = cycles
            /\ trello_ids' = trello_ids
            /\ seen_this_run' = seen
       ELSE /\ pc' = IF shutdown_requested THEN "sleep" ELSE "poll_fetch"
            /\ chan' = 1
            /\ cycles' = IF shutdown_requested THEN cycles ELSE 1
            /\ trello_ids' = {}
            /\ seen_this_run' = {}

\* run_seed, before the loop: the dedup set and seen_this_run
RunSeedBegin ==
    /\ pc = "seed_init"
    /\ \E ids \in GetTrelloVideoIds : trello_ids' = ids
    /\ seen_this_run' = {}
    /\ chan' = 1
    /\ pc' = "seed_fetch"
    /\ event' = Ev("none", Null)
    /\ UNCHANGED <<channels, shutdown_requested, credentials, call, result,
                   backend, starts, cycles, videos, cards, summarized,
                   entries, new_videos>>

\* _fetch_recent_entries: feed.entries[:SEED_DEPTH], [] when the fetch fails
SeedFetch ==
    /\ pc = "seed_fetch"
    /\ \E feed \in Feeds(Channels[chan]) :
         SeedContinue(Take([i \in DOMAIN feed |-> feed[i].video_id], SEED_DEPTH),
                      seen_this_run)
    /\ event' = Ev("none", Null)
    /\ UNCHANGED <<channels, shutdown_requested, credentials, call, result,
                   backend, starts, videos, cards, summarized, new_videos>>

\* the skip test with the table's ids in the dedup set as well
SeedSkipsUnion(vid) ==
    vid \in trello_ids \/ vid \in seen_this_run \/ IsVideoKnown(videos, vid)

\* the skip test of run_seed's loop
SeedSkips(vid) == vid \in trello_ids \/ vid \in seen_this_run

\* run_seed's loop body for an entry the dedup set holds
SeedSkip ==
    /\ pc = "seed_entry"
    /\ entries # <<>>
    /\ SeedSkips(Head(entries))
    /\ SeedContinue(Tail(entries), seen_this_run)
    /\ event' = Ev("seed_skip", Head(entries))
    /\ UNCHANGED <<channels, shutdown_requested, credentials, call, result,
                   backend, starts, videos, cards, summarized, new_videos>>

\* how far _process_seed_entry gets: the summarizer raises, publish raises,
\* mark_video_seen raises, or all four steps return
SeedOutcomes ==
    {"summarize_raises"}
    \cup {"publish_raises" : o \in SeedPublishOutcomes \cap {"raise"}}
    \cup {x \in {"store_raises", "ok"} : "ok" \in SeedPublishOutcomes}

\* run_seed's loop body with _process_seed_entry outside a try: what it
\* raises ends run_seed
SeedProcessAborts ==
    /\ pc = "seed_entry"
    /\ entries # <<>>
    /\ ~SeedSkips(Head(entries))
    /\ \E out \in SeedOutcomes :
         LET vid == Head(entries)
             transcript == GetTranscript(Tier1Of(vid), Tier2Config, Title(vid), "")
             summarizedOk == out # "summarize_raises"
             publishedOk == out \in {"store_raises", "ok"}
         IN  /\ summarized' = IF summarizedOk
                              THEN [summarized EXCEPT ![vid] = Bump(@, CallCap)]
                              ELSE summarized
             /\ cards' = IF publishedOk
                         THEN [cards EXCEPT ![vid] = Bump(@, CardCap)]
                         ELSE cards
             /\ videos' = IF out = "ok"
                          THEN MarkVideoSeen(videos, vid, SummaryText, transcript.tier)
                          ELSE videos
             /\ IF out = "ok"
                THEN SeedContinue(Tail(entries), seen_this_run \cup {vid})
                ELSE /\ entries' = <<>>
                     /\ pc' = IF shutdown_requested THEN "sleep" ELSE "poll_fetch"
                     /\ chan' = 1
                     /\ cycles' = IF shutdown_requested THEN cycles ELSE 1
                     /\ trello_ids' = {}
                     /\ seen_this_run' = {}
             /\ event' = Ev("seed_" \o out, vid)
    /\ UNCHANGED <<channels, shutdown_requested, credentials, call, result,
                   backend, starts, new_videos>>

\* run_seed's loop body for an entry it processes: _process_seed_entry
\* inside the try, seen_this_run only when nothing was raised
SeedProcess ==
    /\ pc = "seed_entry"
    /\ entries # <<>>
    /\ ~SeedSkips(Head(entries))
    /\ \E out \in SeedOutcomes :
         LET vid == Head(entries)
             transcript == GetTranscript(Tier1Of(vid), Tier2Config, Title(vid), "")
             summarizedOk == out # "summarize_raises"
             publishedOk == out \in {"store_raises", "ok"}
         IN  /\ summarized' = IF summarizedOk
                              THEN [summarized EXCEPT ![vid] = Bump(@, CallCap)]
                              ELSE summarized
             /\ cards' = IF publishedOk
                         THEN [cards EXCEPT ![vid] = Bump(@, CardCap)]
                         ELSE cards
             /\ videos' = IF out = "ok"
                          THEN MarkVideoSeen(videos, vid, SummaryText, transcript.tier)
                          ELSE videos
             /\ SeedContinue(Tail(entries),
                             IF out = "ok" THEN seen_this_run \cup {vid}
                             ELSE seen_this_run)
             /\ event' = Ev("seed_" \o out, vid)
    /\ UNCHANGED <<channels, shutdown_requested, credentials, call, result,
                   backend, starts, new_videos>>

(***************************************************************************)
(* channels.py                                                             *)
(***************************************************************************)
\* _is_too_old with the comparison turned around
IsTooOldInverted(published) ==
    IF MAX_VIDEO_AGE_DAYS = 0 \/ published = NoDate THEN FALSE
    ELSE published < MAX_VIDEO_AGE_DAYS

\* _is_too_old, with published in days before now
IsTooOld(published) ==
    IF MAX_VIDEO_AGE_DAYS = 0 \/ published = NoDate THEN FALSE
    ELSE published > MAX_VIDEO_AGE_DAYS

\* the loop without the `continue` after the age skip: the skipped entry is
\* returned as well
RECURSIVE ScanEntriesNoContinue(_, _, _)
ScanEntriesNoContinue(st, es, found) ==
    IF es = <<>> THEN [st |-> st, found |-> found]
    ELSE LET e == Head(es)
         IN  IF st[e.video_id].present
             THEN ScanEntriesNoContinue(st, Tail(es), found)
             ELSE IF e.published # NoDate /\ e.published > MAX_VIDEO_AGE_DAYS
             THEN ScanEntriesNoContinue(
                    UpdateSummary(InsertVideo(st, e.video_id, e.published),
                                  e.video_id, "skipped", Null, Null, NullInt, NullInt),
                    Tail(es), Append(found, e))
             ELSE ScanEntriesNoContinue(st, Tail(es), Append(found, e))

\* fetch_new_videos_from_rss, the loop over feed.entries: the table after the
\* loop (st) and the VideoEntry list it returns (found)
RECURSIVE ScanEntries(_, _, _)
ScanEntries(st, es, found) ==
    IF es = <<>> THEN [st |-> st, found |-> found]
    ELSE LET e == Head(es)
         IN  IF IsVideoKnown(st, e.video_id)
             THEN ScanEntries(st, Tail(es), found)
             ELSE IF IsTooOld(e.published)
             THEN ScanEntries(
                    UpdateSummary(InsertVideo(st, e.video_id, e.published),
                                  e.video_id, "skipped", Null, Null, NullInt, NullInt),
                    Tail(es), found)
             ELSE ScanEntries(st, Tail(es), Append(found, e))

\* the loop over the VideoEntry list without its insert_video
InsertFoundNothing(st, found) == st

\* poll_all_channels, the loop over the VideoEntry list of one channel:
\* insert_video for each
RECURSIVE InsertFound(_, _)
InsertFound(st, found) ==
    IF found = <<>> THEN st
    ELSE InsertFound(InsertVideo(st, Head(found).video_id, Head(found).published),
                     Tail(found))

\* where run_once goes after the poll of channel number c: the next channel,
\* the first candidate, or (no candidates) the sleep
PollAdvancePc(c, cands) ==
    IF c < Len(Channels) THEN "poll_fetch"
    ELSE IF cands = <<>> THEN "sleep" ELSE "pv_transcript"

\* upsert_channel, then fetch_new_videos_from_rss when feedparser.parse raised
\* or answered a bozo feed with an HTTP status >= 400:
\* increment_channel_error, no new videos from this channel
PollFetchFails ==
    /\ pc = "poll_fetch"
    /\ pc' = PollAdvancePc(chan, new_videos)
    /\ chan' = IF chan < Len(Channels) THEN chan + 1 ELSE 1
    /\ channels' = ChannelsAfter(IncrementChannelError(
                        UpsertChannel(channels, Channels[chan]), Channels[chan]))
    /\ event' = Ev("fetch_failed", Null)
    /\ UNCHANGED <<shutdown_requested, credentials, call, result,
                   backend, starts, cycles, videos, cards, summarized,
                   SeedLocals, entries, new_videos>>

\* upsert_channel, then fetch_new_videos_from_rss when no response arrived:
\* feedparser.parse returns a bozo result that has no status and no entries,
\* the test for an HTTP status >= 400 does not hold, the loop has nothing to
\* do, mark_channel_checked runs and [] is returned
PollFetchNoResponse ==
    /\ pc = "poll_fetch"
    /\ pc' = PollAdvancePc(chan, new_videos)
    /\ chan' = IF chan < Len(Channels) THEN chan + 1 ELSE 1
    /\ channels' = ChannelsAfter(MarkChannelChecked(
                        UpsertChannel(channels, Channels[chan]), Channels[chan], Now))
    /\ event' = Ev("fetch_no_response", Null)
    /\ UNCHANGED <<shutdown_requested, credentials, call, result,
                   backend, starts, cycles, videos, cards, summarized,
                   SeedLocals, entries, new_videos>>

\* upsert_channel, then fetch_new_videos_from_rss: feedparser.parse returned
\* the feed
PollFetch ==
    /\ pc = "poll_fetch"
    /\ \E feed \in Feeds(Channels[chan]) : entries' = feed
    /\ pc' = "poll_scan"
    /\ channels' = ChannelsAfter(UpsertChannel(channels, Channels[chan]))
    /\ event' = Ev("none", Null)
    /\ UNCHANGED <<shutdown_requested, credentials, call, result,
                   backend, starts, cycles, videos, cards, summarized,
                   SeedLocals, chan, new_videos>>

\* fetch_new_videos_from_rss from the loop on (mark_channel_checked at its
\* end), and poll_all_channels' inserts of what it returned
PollScan ==
    /\ pc = "poll_scan"
    /\ LET scan == ScanEntries(videos, entries, <<>>)
           cands == new_videos \o [i \in DOMAIN scan.found |-> scan.found[i].video_id]
       IN  /\ videos' = InsertFound(scan.st, scan.found)
           /\ new_videos' = cands
           /\ pc' = PollAdvancePc(chan, cands)
    /\ chan' = IF chan < Len(Channels) THEN chan + 1 ELSE 1
    /\ entries' = <<>>
    /\ channels' = ChannelsAfter(MarkChannelChecked(channels, Channels[chan], Now))
    /\ event' = Ev("poll_scan", Null)
    /\ UNCHANGED <<shutdown_requested, credentials, call, result,
                   backend, starts, cycles, cards, summarized, SeedLocals>>

(***************************************************************************)
(* monitor.py                                                              *)
(***************************************************************************)
\* run_once's loop: after the candidate at the head, the next one or the sleep
NextVideoPc == IF Tail(new_videos) = <<>> THEN "sleep" ELSE "pv_transcript"

\* run_once's loop calling process_video without a look at the flag
PVTranscriptIgnoresShutdown ==
    /\ pc = "pv_transcript"
    /\ LET vid == Head(new_videos)
           transcript == GetTranscript(Tier1Of(vid), Tier2Config, Title(vid),
                                       Description(vid))
       IN  videos' = UpdateTranscript(videos, vid, transcript.tier, transcript.text)
    /\ pc' = "pv_processing"
    /\ event' = Ev("none", Null)
    /\ UNCHANGED <<channels, shutdown_requested, credentials, call, result,
                   backend, starts, cycles, cards, summarized, SeedLocals,
                   chan, entries, new_videos>>

\* run_once's loop finds no shutdown request and calls process_video;
\* process_video step 1: get_transcript and update_transcript
PVTranscript ==
    /\ pc = "pv_transcript"
    /\ ~shutdown_requested
    /\ LET vid == Head(new_videos)
           transcript == GetTranscript(Tier1Of(vid), Tier2Config, Title(vid),
                                       Description(vid))
       IN  videos' = UpdateTranscript(videos, vid, transcript.tier, transcript.text)
    /\ pc' = "pv_processing"
    /\ event' = Ev("none", Null)
    /\ UNCHANGED <<channels, shutdown_requested, credentials, call, result,
                   backend, starts, cycles, cards, summarized, SeedLocals,
                   chan, entries, new_videos>>

\* process_video step 2 without its first statement
PVProcessingNotWritten ==
    /\ pc = "pv_processing"
    /\ pc' = "pv_summarize"
    /\ event' = Ev("none", Null)
    /\ UNCHANGED <<channels, shutdown_requested, credentials, call, result,
                   backend, starts, cycles, videos, cards, summarized,
                   SeedLocals, chan, entries, new_videos>>

\* process_video step 2, first statement: update_summary(vid, "processing")
PVProcessing ==
    /\ pc = "pv_processing"
    /\ videos' = UpdateSummary(videos, Head(new_videos), "processing",
                               Null, Null, NullInt, NullInt)
    /\ pc' = "pv_summarize"
    /\ event' = Ev("none", Null)
    /\ UNCHANGED <<channels, shutdown_requested, credentials, call, result,
                   backend, starts, cycles, cards, summarized, SeedLocals,
                   chan, entries, new_videos>>

\* process_video step 2: summarizer.summarize returned, update_summary("done")
PVSummarizeOk ==
    /\ pc = "pv_summarize"
    /\ videos' = UpdateSummary(videos, Head(new_videos), "done",
                               SummaryText, Null, TokensIn, TokensOut)
    /\ summarized' = [summarized EXCEPT ![Head(new_videos)] = Bump(@, CallCap)]
    /\ pc' = "pv_publish"
    /\ event' = Ev("summarized", Head(new_videos))
    /\ UNCHANGED <<channels, shutdown_requested, credentials, call, result,
                   backend, starts, cycles, cards, SeedLocals,
                   chan, entries, new_videos>>

\* step 2's except branch re-raising after the write: run_once's loop ends and
\* main's handler goes on to the sleep
PVSummarizeFailsAborts ==
    /\ pc = "pv_summarize"
    /\ videos' = UpdateSummary(videos, Head(new_videos), "failed",
                               Null, "error", NullInt, NullInt)
    /\ pc' = "sleep"
    /\ new_videos' = <<>>
    /\ event' = Ev("summarize_failed", Head(new_videos))
    /\ UNCHANGED <<channels, shutdown_requested, credentials, call, result,
                   backend, starts, cycles, cards, summarized, SeedLocals,
                   chan, entries>>

\* process_video step 2: summarizer.summarize raised, update_summary("failed")
PVSummarizeFails ==
    /\ pc = "pv_summarize"
    /\ videos' = UpdateSummary(videos, Head(new_videos), "failed",
                               Null, "error", NullInt, NullInt)
    /\ pc' = NextVideoPc
    /\ new_videos' = Tail(new_videos)
    /\ event' = Ev("summarize_failed", Head(new_videos))
    /\ UNCHANGED <<channels, shutdown_requested, credentials, call, result,
                   backend, starts, cycles, cards, summarized, SeedLocals,
                   chan, entries>>

\* process_video step 3 when get_pending_output_videos has no row of vid
PVPublishNoRow ==
    /\ pc = "pv_publish"
    /\ Head(new_videos) \notin GetPendingOutputVideos(videos)
    /\ pc' = NextVideoPc
    /\ new_videos' = Tail(new_videos)
    /\ event' = Ev("publish_no_row", Head(new_videos))
    /\ UNCHANGED <<channels, shutdown_requested, credentials, call, result,
                   backend, starts, cycles, videos, cards, summarized,
                   SeedLocals, chan, entries>>

\* process_video step 3 for the pending row of vid: backend.publish(row),
\* then update_output
PVPublish ==
    /\ pc = "pv_publish"
    /\ Head(new_videos) \in GetPendingOutputVideos(videos)
    /\ \E out \in PollPublishOutcomes :
         LET vid == Head(new_videos)
         IN  IF out = "ok"
             THEN /\ cards' = [cards EXCEPT ![vid] = Bump(@, CardCap)]
                  /\ videos' = UpdateOutput(videos, vid, "done", vid, Null)
                  /\ event' = Ev("published", vid)
             ELSE /\ cards' = cards
                  /\ videos' = UpdateOutput(videos, vid, "failed", Null, "error")
                  /\ event' = Ev("publish_failed", vid)
    /\ pc' = NextVideoPc
    /\ new_videos' = Tail(new_videos)
    /\ UNCHANGED <<channels, shutdown_requested, credentials, call, result,
                   backend, starts, cycles, summarized, SeedLocals,
                   chan, entries>>

\* main's loop: the sleep is over with no shutdown request, the next
\* run_once starts
NextCycle ==
    /\ pc = "sleep"
    /\ ~shutdown_requested
    /\ cycles < MaxCycles
    /\ cycles' = cycles + 1
    /\ pc' = "poll_fetch"
    /\ chan' = 1
    /\ new_videos' = <<>>
    /\ event' = Ev("none", Null)
    /\ UNCHANGED <<channels, shutdown_requested, credentials, call, result,
                   backend, starts, videos, cards, summarized, SeedLocals,
                   entries>>

\* run_once's loop finds the shutdown request before a candidate: break
RunOnceBreak ==
    /\ pc = "pv_transcript"
    /\ shutdown_requested
    /\ pc' = "sleep"
    /\ new_videos' = <<>>
    /\ event' = Ev("shutdown_break", Null)
    /\ UNCHANGED <<channels, shutdown_requested, credentials, call, result,
                   backend, starts, cycles, videos, cards, summarized, SeedLocals,
                   chan, entries>>

\* where a database call that no try of the cycle encloses opens the step:
\* upsert_channel, is_video_known, update_summary(vid, "processing"),
\* get_pending_output_videos
RaisePcs == {"poll_fetch", "poll_scan", "pv_processing", "pv_publish"}

\* the handler of main's loop re-raising: the process ends
RunOnceRaisesExits ==
    /\ pc \in RaisePcs
    /\ pc' = "exited"
    /\ cycles' = 0
    /\ chan' = 1
    /\ entries' = <<>>
    /\ new_videos' = <<>>
    /\ shutdown_requested' = FALSE
    /\ event' = Ev("cycle_raised", Null)
    /\ UNCHANGED <<channels, credentials, call, result,
                   backend, starts, videos, cards, summarized, SeedLocals>>

\* that database call raises (get_db rolls back, nothing is written), the
\* exception leaves run_once and main's handler logs it
RunOnceRaises ==
    /\ pc \in RaisePcs
    /\ pc' = "sleep"
    /\ chan' = 1
    /\ entries' = <<>>
    /\ new_videos' = <<>>
    /\ event' = Ev("cycle_raised", Null)
    /\ UNCHANGED <<channels, shutdown_requested, credentials, call, result,
                   backend, starts, cycles, videos, cards, summarized, SeedLocals>>

SeedPcs == {"seed_init", "seed_fetch", "seed_entry"}

\* run_seed raises as a whole and main has no handler for it
SeedRaisesExits ==
    /\ pc \in SeedPcs
    /\ pc' = "exited"
    /\ cycles' = 0
    /\ chan' = 1
    /\ entries' = <<>>
    /\ trello_ids' = {}
    /\ seen_this_run' = {}
    /\ shutdown_requested' = FALSE
    /\ event' = Ev("seed_raised", Null)
    /\ UNCHANGED <<channels, credentials, call, result,
                   backend, starts, videos, cards, summarized, new_videos>>

\* run_seed raises as a whole: main's handler logs it and goes on to the loop
SeedRaises ==
    /\ pc \in SeedPcs
    /\ pc' = IF shutdown_requested THEN "sleep" ELSE "poll_fetch"
    /\ cycles' = IF shutdown_requested THEN cycles ELSE 1
    /\ chan' = 1
    /\ entries' = <<>>
    /\ trello_ids' = {}
    /\ seen_this_run' = {}
    /\ event' = Ev("seed_raised", Null)
    /\ UNCHANGED <<channels, shutdown_requested, credentials, call, result,
                   backend, starts, videos, cards, summarized, new_videos>>

\* main leaves its loop on the shutdown request and returns: exit status 0
MainExit ==
    /\ pc = "sleep"
    /\ shutdown_requested
    /\ pc' = "exited"
    /\ cycles' = 0
    /\ shutdown_requested' = FALSE
    /\ event' = Ev("exit_0", Null)
    /\ UNCHANGED <<channels, credentials, call, result,
                   backend, starts, videos, cards, summarized, SeedLocals,
                   chan, entries, new_videos>>

(***************************************************************************)
(* The Trello board, as its users change it.  Archiving a card changes     *)
(* nothing the program can see (cards?filter=all lists it like an open     *)
(* one); deleting it for good removes it from the API.                     *)
(***************************************************************************)
DeleteCard ==
    /\ backend = "trello"
    /\ \E v \in Videos :
         /\ cards[v] > 0
         /\ cards' = [cards EXCEPT ![v] = @ - 1]
    /\ event' = Ev("none", Null)
    /\ UNCHANGED <<channels, shutdown_requested, credentials, call, result,
                   backend, pc, starts, cycles, videos, summarized, SeedLocals,
                   chan, entries, new_videos>>

Next ==
    \/ Start
    \/ Crash
    \/ RunSeedBegin
    \/ SeedFetch
    \/ SeedSkip
    \/ SeedProcess
    \/ PollFetchFails
    \/ PollFetch
    \/ PollScan
    \/ PVTranscript
    \/ PVProcessing
    \/ PVSummarizeOk
    \/ PVSummarizeFails
    \/ PVPublishNoRow
    \/ PVPublish
    \/ NextCycle
    \/ DeleteCard

Spec == Init /\ [][Next]_vars

(***************************************************************************)
(* monitor.main with what Spec leaves out: settings that are missing at    *)
(* startup, SIGTERM, a run_seed and a run_once that raise.  One process,   *)
(* from its start to its exit; it is not killed and the board is left      *)
(* alone.                                                                  *)
(***************************************************************************)
InitMain ==
    /\ channels = Untracked
    /\ shutdown_requested = FALSE
    /\ credentials \in {RequiredKeys} \cup {RequiredKeys \ {k} : k \in RequiredKeys}
    /\ backend \in {"trello", "dashboard"}
    /\ pc = "down"
    /\ starts = 0
    /\ cycles = 0
    /\ videos = [v \in Videos |-> NoRow]
    /\ cards = [v \in Videos |-> 0]
    /\ summarized = [v \in Videos |-> 0]
    /\ trello_ids = {}
    /\ seen_this_run = {}
    /\ chan = 1
    /\ entries = <<>>
    /\ new_videos = <<>>
    /\ event = Ev("init", Null)
    /\ call = NoCall
    /\ result = NotCalled

\* the steps of run_seed, and main's handler for it
SeedSteps ==
    \/ RunSeedBegin
    \/ SeedFetch
    \/ SeedSkip
    \/ SeedProcess
    \/ SeedRaises

\* the steps of main's loop
LoopSteps ==
    \/ PollFetchFails
    \/ PollFetch
    \/ PollScan
    \/ PVTranscript
    \/ PVProcessing
    \/ PVSummarizeOk
    \/ PVSummarizeFails
    \/ PVPublishNoRow
    \/ PVPublish
    \/ RunOnceBreak
    \/ RunOnceRaises
    \/ NextCycle
    \/ MainExit

NextMain ==
    \/ Start
    \/ SigTerm
    \/ SeedSteps
    \/ LoopSteps

SpecMain == InitMain /\ [][NextMain]_vars

(***************************************************************************)
(* main's loop on its own, from the first run_once to the exit, with       *)
(* SIGTERM arriving at any point.  The process goes on: no call blocks     *)
(* for ever.                                                               *)
(***************************************************************************)
InitShutdown ==
    /\ channels = Untracked
    /\ shutdown_requested = FALSE
    /\ credentials = RequiredKeys
    /\ backend \in {"trello", "dashboard"}
    /\ pc = "poll_fetch"
    /\ starts = 1
    /\ cycles = 1
    /\ videos = [v \in Videos |-> NoRow]
    /\ cards = [v \in Videos |-> 0]
    /\ summarized = [v \in Videos |-> 0]
    /\ trello_ids = {}
    /\ seen_this_run = {}
    /\ chan = 1
    /\ entries = <<>>
    /\ new_videos = <<>>
    /\ event = Ev("init", Null)
    /\ call = NoCall
    /\ result = NotCalled

NextShutdown ==
    \/ SigTerm
    \/ LoopSteps

SpecShutdown == InitShutdown /\ [][NextShutdown]_vars /\ WF_vars(LoopSteps)

(***************************************************************************)
(* main's loop as long as the process lives: no shutdown is requested,     *)
(* a cycle may raise, and after the sleep the next cycle always starts.    *)
(***************************************************************************)
\* main's loop past the cycles that are counted: the sleep is over, the
\* next run_once starts, the counter stays at its cap
NextCycleAgain ==
    /\ pc = "sleep"
    /\ ~shutdown_requested
    /\ cycles = MaxCycles
    /\ pc' = "poll_fetch"
    /\ chan' = 1
    /\ new_videos' = <<>>
    /\ event' = Ev("none", Null)
    /\ UNCHANGED <<channels, shutdown_requested, credentials, call, result,
                   backend, starts, cycles, videos, cards, summarized, SeedLocals,
                   entries>>

NextForever ==
    \/ PollFetchFails
    \/ PollFetch
    \/ PollScan
    \/ PVTranscript
    \/ PVProcessing
    \/ PVSummarizeOk
    \/ PVSummarizeFails
    \/ PVPublishNoRow
    \/ PVPublish
    \/ RunOnceRaises
    \/ NextCycle
    \/ NextCycleAgain

SpecForever == InitShutdown /\ [][NextForever]_vars /\ WF_vars(NextForever)

(***************************************************************************)
(* fetch_new_videos_from_rss write by write: every helper call of its loop *)
(* commits on its own, so the table can be seen, and can be left by a      *)
(* process that dies, after any one of them.                               *)
(***************************************************************************)
\* the tables the loop over feed.entries commits one after the other, from
\* the table st it starts with: for an entry that is too old first the row
\* insert_video wrote, then the row update_summary marked skipped
RECURSIVE ScanCommitPoints(_, _)
ScanCommitPoints(st, es) ==
    IF es = <<>> THEN {st}
    ELSE LET e == Head(es)
             inserted == InsertVideo(st, e.video_id, e.published)
             marked == UpdateSummary(inserted, e.video_id, "skipped",
                                     Null, Null, NullInt, NullInt)
         IN  IF IsVideoKnown(st, e.video_id)
             THEN ScanCommitPoints(st, Tail(es))
             ELSE IF IsTooOld(e.published)
             THEN {st, inserted} \cup ScanCommitPoints(marked, Tail(es))
             ELSE ScanCommitPoints(st, Tail(es))

\* the process dies (kill, power loss) somewhere in the loop of
\* fetch_new_videos_from_rss: the table keeps what was committed
PollScanDies ==
    /\ pc = "poll_scan"
    /\ \E st \in ScanCommitPoints(videos, entries) : videos' = st
    /\ pc' = "down"
    /\ cycles' = 0
    /\ chan' = 1
    /\ entries' = <<>>
    /\ new_videos' = <<>>
    /\ event' = Ev("scan_died", Null)
    /\ UNCHANGED <<channels, shutdown_requested, credentials, call, result,
                   backend, starts, cards, summarized, SeedLocals>>

NextScan ==
    \/ PollFetchFails
    \/ PollFetch
    \/ PollScan
    \/ PollScanDies
    \/ PVTranscript
    \/ PVProcessing
    \/ PVSummarizeOk
    \/ PVSummarizeFails
    \/ PVPublishNoRow
    \/ PVPublish
    \/ NextCycle

SpecScan == InitShutdown /\ [][NextScan]_vars

(***************************************************************************)
(* channels.poll_all_channels and the channels table: one process, its     *)
(* poll cycles with the dashboard backend, and an operator who pauses a    *)
(* channel in the table.                                                   *)
(***************************************************************************)
InitPoll ==
    /\ channels = [c \in ChannelIds |-> NoChannel]
    /\ shutdown_requested = FALSE
    /\ credentials = RequiredKeys
    /\ backend = "dashboard"
    /\ pc = "poll_fetch"
    /\ starts = 1
    /\ cycles = 1
    /\ videos = [v \in Videos |-> NoRow]
    /\ cards = [v \in Videos |-> 0]
    /\ summarized = [v \in Videos |-> 0]
    /\ trello_ids = {}
    /\ seen_this_run = {}
    /\ chan = 1
    /\ entries = <<>>
    /\ new_videos = <<>>
    /\ event = Ev("init", Null)
    /\ call = NoCall
    /\ result = NotCalled

\* enabled is set to 0 (paused) in a channel's row, from outside the program
PauseChannel ==
    /\ \E c \in ChannelIds :
         /\ channels[c].present
         /\ channels[c].enabled
         /\ channels' = [channels EXCEPT ![c].enabled = FALSE]
    /\ event' = Ev("none", Null)
    /\ UNCHANGED <<shutdown_requested, credentials, call, result,
                   backend, pc, starts, cycles, videos, cards, summarized,
                   SeedLocals, chan, entries, new_videos>>

NextPoll ==
    \/ PollFetchFails
    \/ PollFetchNoResponse
    \/ PollFetch
    \/ PollScan
    \/ PVTranscript
    \/ PVProcessing
    \/ PVSummarizeOk
    \/ PVSummarizeFails
    \/ PVPublishNoRow
    \/ PVPublish
    \/ NextCycle
    \/ PauseChannel

SpecPoll == InitPoll /\ [][NextPoll]_vars

(***************************************************************************)
(* transcripts.get_transcript on its own: one call, for every answer of    *)
(* the captions service and of the Whisper tier and every title and        *)
(* description.                                                            *)
(***************************************************************************)
\* snippets one fetched transcript holds
MaxSnippets == 2
SnippetTexts == {"", " ", "a", " b "}

Tier1Answers ==
    {[kind |-> "ok", snippets |-> sn] : sn \in SeqsUpTo(SnippetTexts, MaxSnippets)}
    \cup {[kind |-> k, snippets |-> <<>>] :
            k \in {"none", "permanent", "transient", "missing"}}

Tier2Answers ==
    {[enabled |-> en, kind |-> k, text |-> tx] :
        en \in BOOLEAN,
        k \in {"ok", "missing_dependency", "no_file", "raises"},
        tx \in {Null, "", "w"}}

ExtractCalls ==
    {[kind |-> "get_transcript", t1 |-> a1, t2 |-> a2, title |-> ti, description |-> de] :
        a1 \in Tier1Answers, a2 \in Tier2Answers, ti \in {"", "T"}, de \in {"", "D"}}

InitExtract ==
    /\ channels = Untracked
    /\ shutdown_requested = FALSE
    /\ credentials = RequiredKeys
    /\ backend = "trello"
    /\ pc = "get_transcript"
    /\ starts = 0
    /\ cycles = 0
    /\ videos = [v \in Videos |-> NoRow]
    /\ cards = [v \in Videos |-> 0]
    /\ summarized = [v \in Videos |-> 0]
    /\ trello_ids = {}
    /\ seen_this_run = {}
    /\ chan = 1
    /\ entries = <<>>
    /\ new_videos = <<>>
    /\ event = Ev("init", Null)
    /\ call \in ExtractCalls
    /\ result = NotCalled

\* the call returns
CallGetTranscript ==
    /\ pc = "get_transcript"
    /\ result = NotCalled
    /\ result' = GetTranscript(call.t1, call.t2, call.title, call.description)
    /\ event' = Ev("get_transcript", Null)
    /\ UNCHANGED <<channels, shutdown_requested, credentials, call,
                   backend, pc, starts, cycles, videos, cards, summarized,
                   SeedLocals, chan, entries, new_videos>>

NextExtract == CallGetTranscript

SpecExtract == InitExtract /\ [][NextExtract]_vars

(***************************************************************************)
(* channels._is_too_old on its own, and the pass of the loop of            *)
(* fetch_new_videos_from_rss that asks it: one entry without a row, for    *)
(* every maximum age, published time and time of the poll.  Times are in   *)
(* days.                                                                   *)
(***************************************************************************)
\* the latest day of a published time and of a poll
MaxDay == 6

\* _is_too_old without the test for a maximum age of 0
IsTooOldAtNoSwitch(max_age_days, published_at, now) ==
    IF published_at = NoDate THEN FALSE
    ELSE published_at < now - max_age_days

\* _is_too_old, with config.MAX_VIDEO_AGE_DAYS and datetime.now() as
\* arguments: cutoff = now - timedelta(days), published_at < cutoff
IsTooOldAt(max_age_days, published_at, now) ==
    IF max_age_days = 0 \/ published_at = NoDate THEN FALSE
    ELSE published_at < now - max_age_days

\* one pass of the loop body of fetch_new_videos_from_rss for the entry e,
\* too_old being what _is_too_old answered
ScanEntryWith(too_old, st, e) ==
    IF IsVideoKnown(st, e.video_id) THEN [st |-> st, found |-> <<>>]
    ELSE IF too_old
    THEN [st |-> UpdateSummary(InsertVideo(st, e.video_id, e.published),
                               e.video_id, "skipped", Null, Null, NullInt, NullInt),
          found |-> <<>>]
    ELSE [st |-> st, found |-> <<e>>]

AgeCalls ==
    {[kind |-> "is_too_old", max_age_days |-> m, published_at |-> p, now |-> n] :
        m \in 0 .. MAX_VIDEO_AGE_DAYS, p \in {NoDate} \cup (0 .. MaxDay),
        n \in 0 .. MaxDay}

InitAge ==
    /\ channels = Untracked
    /\ shutdown_requested = FALSE
    /\ credentials = RequiredKeys
    /\ backend = "trello"
    /\ pc = "is_too_old"
    /\ starts = 0
    /\ cycles = 0
    /\ videos = [v \in Videos |-> NoRow]
    /\ cards = [v \in Videos |-> 0]
    /\ summarized = [v \in Videos |-> 0]
    /\ trello_ids = {}
    /\ seen_this_run = {}
    /\ chan = 1
    /\ entries = <<>>
    /\ new_videos = <<>>
    /\ event = Ev("init", Null)
    /\ call \in AgeCalls
    /\ result = NotCalled

\* the pass of the loop for the entry "v1" of the first channel: the call
\* of _is_too_old returns, the entry is stored as skipped or returned
CallIsTooOld ==
    /\ pc = "is_too_old"
    /\ event.op = "init"
    /\ LET too_old == IsTooOldAt(call.max_age_days, call.published_at, call.now)
           pass == ScanEntryWith(too_old, videos,
                                 [video_id |-> "v1", published |-> call.published_at])
       IN  /\ result' = [tier |-> 0, text |-> IF too_old THEN "True" ELSE "False"]
           /\ videos' = pass.st
           /\ new_videos' = [i \in DOMAIN pass.found |-> pass.found[i].video_id]
    /\ event' = Ev("is_too_old", "v1")
    /\ UNCHANGED <<channels, shutdown_requested, credentials, call,
                   backend, pc, starts, cycles, cards, summarized,
                   SeedLocals, chan, entries>>

NextAge == CallIsTooOld

SpecAge == InitAge /\ [][NextAge]_vars

(***************************************************************************)
(* database.py on its own: the video helpers, called in any order with     *)
(* the arguments the program passes them.                                  *)
(***************************************************************************)
InitStore ==
    /\ channels = Untracked
    /\ shutdown_requested = FALSE
    /\ credentials = RequiredKeys
    /\ backend = "trello"
    /\ pc = "database"
    /\ starts = 0
    /\ cycles = 0
    /\ videos = [v \in Videos |-> NoRow]
    /\ cards = [v \in Videos |-> 0]
    /\ summarized = [v \in Videos |-> 0]
    /\ trello_ids = {}
    /\ seen_this_run = {}
    /\ chan = 1
    /\ entries = <<>>
    /\ new_videos = <<>>
    /\ event = Ev("init", Null)
    /\ call = NoCall
    /\ result = NotCalled

StoreFrame ==
    UNCHANGED <<channels, shutdown_requested, credentials, call, result,
                backend, pc, starts, cycles, cards, summarized,
                SeedLocals, chan, entries, new_videos>>

CallInsertVideo ==
    /\ pc = "database"
    /\ \E v \in Videos, published \in FeedAges \cup {NoDate} :
         /\ videos' = InsertVideo(videos, v, published)
         /\ event' = Ev("insert_video", v)
    /\ StoreFrame

CallMarkVideoSeen ==
    /\ pc = "database"
    /\ \E v \in Videos, tier \in {1, 3} :
         /\ videos' = MarkVideoSeen(videos, v, SummaryText, tier)
         /\ event' = Ev("mark_video_seen", v)
    /\ StoreFrame

CallUpdateTranscript ==
    /\ pc = "database"
    /\ \E v \in Videos :
         /\ videos' = UpdateTranscript(videos, v, 1, "hello world")
         /\ event' = Ev("update_transcript", v)
    /\ StoreFrame

CallUpdateSummary ==
    /\ pc = "database"
    /\ \E v \in Videos,
          a \in {[status |-> "skipped", text |-> Null, error |-> Null, tin |-> NullInt, tout |-> NullInt],
                 [status |-> "processing", text |-> Null, error |-> Null, tin |-> NullInt, tout |-> NullInt],
                 [status |-> "done", text |-> SummaryText, error |-> Null, tin |-> TokensIn, tout |-> TokensOut],
                 [status |-> "failed", text |-> Null, error |-> "error", tin |-> NullInt, tout |-> NullInt]} :
         /\ videos' = UpdateSummary(videos, v, a.status, a.text, a.error, a.tin, a.tout)
         /\ event' = Ev("update_summary", v)
    /\ StoreFrame

CallUpdateOutput ==
    /\ pc = "database"
    /\ \E v \in Videos,
          a \in {[status |-> "done", error |-> Null],
                 [status |-> "failed", error |-> "error"]} :
         /\ videos' = UpdateOutput(videos, v, a.status,
                                   IF a.status = "done" THEN v ELSE Null, a.error)
         /\ event' = Ev("update_output", v)
    /\ StoreFrame

NextStore ==
    \/ CallInsertVideo
    \/ CallMarkVideoSeen
    \/ CallUpdateTranscript
    \/ CallUpdateSummary
    \/ CallUpdateOutput

SpecStore == InitStore /\ [][NextStore]_vars

(***************************************************************************)
(* database.get_db: one helper call as the transaction it is.  The         *)
(* statement runs on the helper's own connection; videos is the committed  *)
(* table, which is what any other connection (the dashboard's) reads.      *)
(***************************************************************************)
StoreKinds == {"insert_video", "mark_video_seen", "update_transcript",
               "update_summary", "update_output"}

\* the helper calls the program makes, by their arguments
StoreCalls ==
    {[kind |-> "insert_video", vid |-> v, status |-> Null, published |-> p] :
        v \in Videos, p \in {RecentDays, NoDate}}
    \cup {[kind |-> "mark_video_seen", vid |-> v, status |-> Null, published |-> NoDate] :
        v \in Videos}
    \cup {[kind |-> "update_transcript", vid |-> v, status |-> Null, published |-> NoDate] :
        v \in Videos}
    \cup {[kind |-> "update_summary", vid |-> v, status |-> s, published |-> NoDate] :
        v \in Videos, s \in {"skipped", "processing", "done", "failed"}}
    \cup {[kind |-> "update_output", vid |-> v, status |-> s, published |-> NoDate] :
        v \in Videos, s \in {"done", "failed"}}

\* the table once the statement of call c is committed
ApplyCall(st, c) ==
    CASE c.kind = "insert_video" -> InsertVideo(st, c.vid, c.published)
      [] c.kind = "mark_video_seen" -> MarkVideoSeen(st, c.vid, SummaryText, 3)
      [] c.kind = "update_transcript" -> UpdateTranscript(st, c.vid, 1, "hello world")
      [] c.kind = "update_summary" ->
            UpdateSummary(st, c.vid, c.status,
                          IF c.status = "done" THEN SummaryText ELSE Null,
                          IF c.status = "failed" THEN "error" ELSE Null,
                          IF c.status = "done" THEN TokensIn ELSE NullInt,
                          IF c.status = "done" THEN TokensOut ELSE NullInt)
      [] c.kind = "update_output" ->
            UpdateOutput(st, c.vid, c.status,
                         IF c.status = "done" THEN c.vid ELSE Null,
                         IF c.status = "failed" THEN "error" ELSE Null)

TxFrame ==
    UNCHANGED <<channels, shutdown_requested, credentials, result,
                backend, pc, starts, cycles, cards, summarized,
                SeedLocals, chan, entries, new_videos>>

\* `with get_db() as conn: conn.execute(...)`: the connection is open and
\* the statement has run in its transaction; nothing is committed
TxExecute ==
    /\ pc = "database"
    /\ call = NoCall
    /\ \E c \in StoreCalls : call' = c
    /\ videos' = videos
    /\ event' = Ev("execute", call'.vid)
    /\ TxFrame

\* get_db after the yield: conn.commit()
TxCommit ==
    /\ pc = "database"
    /\ call # NoCall
    /\ videos' = ApplyCall(videos, call)
    /\ call' = NoCall
    /\ event' = Ev("commit_" \o call.kind, call.vid)
    /\ TxFrame

\* get_db with autocommit and no rollback: a write that fails half-way
\* leaves the first column of its SET list written
TxRollbackKeepsPart ==
    /\ pc = "database"
    /\ call # NoCall
    /\ videos' =
         IF ~videos[call.vid].present THEN videos
         ELSE CASE call.kind = "update_transcript" ->
                     [videos EXCEPT ![call.vid].transcript_tier = 1]
                [] call.kind = "update_summary" ->
                     [videos EXCEPT ![call.vid].summary_status = call.status]
                [] call.kind = "update_output" ->
                     [videos EXCEPT ![call.vid].output_status = call.status]
                [] OTHER -> videos
    /\ call' = NoCall
    /\ event' = Ev("rollback_" \o call.kind, call.vid)
    /\ TxFrame

\* get_db's except branch: the statement or the commit raised (the database
\* is locked, the disk is full), conn.rollback() and re-raise
TxRollback ==
    /\ pc = "database"
    /\ call # NoCall
    /\ videos' = videos
    /\ call' = NoCall
    /\ event' = Ev("rollback_" \o call.kind, call.vid)
    /\ TxFrame

NextTx ==
    \/ TxExecute
    \/ TxCommit
    \/ TxRollback

SpecTx == InitStore /\ [][NextTx]_vars

(***************************************************************************)
(* Properties.                                                             *)
(*                                                                         *)
(* event names the step that led to the current state: "seed_skip" and     *)
(* "seed_<outcome>" for one entry of run_seed's loop, "poll_scan" for      *)
(* fetch_new_videos_from_rss, "summarized" / "summarize_failed" for        *)
(* process_video's step 2, "published" / "publish_failed" /                *)
(* "publish_no_row" for its step 3.  "fetch_failed" and                    *)
(* "fetch_no_response" are the two ways a fetch ends without a feed,       *)
(* "cycle_raised" / "seed_raised" an exception caught by main, "sigterm"   *)
(* the signal handler, "shutdown_break" run_once's break, "exit_0" /       *)
(* "exit_1" the end of the process.                                        *)
(***************************************************************************)
Row(v) == videos[v]

\* one pass of run_seed's loop body
SeedEntryOps == {"seed_skip", "seed_summarize_raises", "seed_publish_raises",
                 "seed_store_raises", "seed_ok"}
\* passes of run_seed's loop body that got past the skip test
SeedProcessOps == SeedEntryOps \ {"seed_skip"}
\* steps in which backend.publish was called
PublishCallOps == {"seed_publish_raises", "seed_store_raises", "seed_ok",
                   "published", "publish_failed"}
\* process_video's step 3
DeliveryOps == {"published", "publish_failed", "publish_no_row"}
\* process_video's steps 2 and 3
PollPipelineOps == DeliveryOps \cup {"summarized", "summarize_failed"}

\* the candidates this step added to new_videos
Emitted == {new_videos'[i] : i \in (Len(new_videos) + 1) .. Len(new_videos')}

\* C1: over backfills, poll cycles, failures and restarts, publish completes
\* at most once per video id while the entry it created is still on the
\* destination (open or archived): no video ever has two live entries.
C1_PublishedAtMostOnce == \A v \in Videos : cards[v] <= 1

\* C2: over backfills, poll cycles and restarts, the summarizer completes at
\* most one call per video id.
C2_SummarizedAtMostOnce == \A v \in Videos : summarized[v] <= 1

\* C3: a row whose output_status is done keeps it, and process_video's
\* step 3 for such a row calls no publish and leaves the table and the
\* destination as they were.
C3_DeliveryDoneIsFinal ==
    [][\A v \in Videos :
         (Row(v).present /\ Row(v).output_status = "done") =>
            /\ videos'[v].present
            /\ videos'[v].output_status = "done"
            /\ (event'.op \in DeliveryOps /\ event'.vid = v) =>
                 /\ event'.op = "publish_no_row"
                 /\ videos' = videos
                 /\ cards' = cards]_vars

\* step 3 has just run for a row that was already delivered
C3_Witness ==
    /\ event.op = "publish_no_row"
    /\ Row(event.vid).present
    /\ Row(event.vid).output_status = "done"

\* C4: insert_video and mark_video_seen for an id that has a row leave the
\* table exactly as it was: one row for the id, every column as before.
C4_InsertIfAbsent ==
    [][\A v \in Videos :
         (event'.op \in {"insert_video", "mark_video_seen"} /\ event'.vid = v
          /\ Row(v).present) => videos' = videos]_vars

\* insert_video has just been called for a row that was summarized before
C4_Witness ==
    /\ event.op = "insert_video"
    /\ Row(event.vid).present
    /\ Row(event.vid).summary_status = "done"

\* C5 as stated: run_seed skips every entry whose id is in the table or in
\* the set it got from get_existing_video_ids.
C5_SkipsUnionOfStoreAndBoard ==
    [][(pc = "seed_entry" /\ entries # <<>> /\ event'.op \in SeedEntryOps
        /\ (IsVideoKnown(videos, Head(entries)) \/ Head(entries) \in trello_ids))
       => event'.op = "seed_skip"]_vars

\* C5, amended: the dedup set run_seed builds is what get_existing_video_ids
\* returned, or empty when the backend has no such method or the call
\* raised; run_seed skips an entry exactly when its id is in that set or was
\* seeded earlier in the same run, whether or not the table has the id.
C5_SkipsBoardAndThisRun ==
    [][/\ (pc = "seed_init" /\ pc' = "seed_fetch") =>
            /\ trello_ids' \in {ExistingVideoIds, {}}
            /\ backend = "dashboard" => trello_ids' = {}
       /\ (pc = "seed_entry" /\ entries # <<>> /\ event'.op \in SeedEntryOps) =>
            /\ event'.vid = Head(entries)
            /\ event'.op = "seed_skip"
                 <=> (Head(entries) \in trello_ids \/ Head(entries) \in seen_this_run)]_vars

\* run_seed has just processed, to the end, an entry whose id the table
\* already had (with a delivery that failed in a poll cycle)
C5_Witness ==
    /\ event.op = "seed_ok"
    /\ Row(event.vid).present
    /\ Row(event.vid).output_status = "failed"

\* C6: in run_seed an entry whose id an open or archived card references is
\* skipped and gets no second card.
C6_LiveCardSkipped ==
    [][(backend = "trello" /\ pc = "seed_entry" /\ entries # <<>>
        /\ event'.op \in SeedEntryOps /\ cards[Head(entries)] > 0)
       => (event'.op = "seed_skip" /\ cards' = cards)]_vars

\* C7 as stated: after an entry went through _process_seed_entry without an
\* error its row has summary_status done and output_status done.
C7_SeededRowIsDone ==
    event.op = "seed_ok" =>
        /\ Row(event.vid).present
        /\ Row(event.vid).summary_status = "done"
        /\ Row(event.vid).output_status = "done"

\* C7, amended: after an entry went through _process_seed_entry without an
\* error the table has a row for its id: the done/done row if it had none,
\* else the row it had, unchanged.  Rows are never deleted and no poll
\* returns an id that has a row as a candidate.
C7_SeededRowKept ==
    [][/\ event'.op = "seed_ok" =>
            /\ videos'[event'.vid].present
            /\ IF Row(event'.vid).present
               THEN videos'[event'.vid] = Row(event'.vid)
               ELSE /\ videos'[event'.vid].summary_status = "done"
                    /\ videos'[event'.vid].output_status = "done"
       /\ \A v \in Videos :
            Row(v).present => (videos'[v].present /\ v \notin Emitted)]_vars

\* run_seed has just processed, to the end, an entry whose row a poll cycle
\* had left with a failed summary
C7_Witness ==
    /\ event.op = "seed_ok"
    /\ Row(event.vid).present
    /\ Row(event.vid).summary_status = "failed"

\* C8: with MAX_VIDEO_AGE_DAYS positive, the scan of a feed stores an entry
\* that has no row and was published before the cutoff with summary_status
\* skipped and does not return it; the row stays skipped and no later scan
\* returns its id.
C8_AgeFilter ==
    [][/\ (pc = "poll_scan" /\ event'.op = "poll_scan" /\ MAX_VIDEO_AGE_DAYS > 0) =>
            \A i \in DOMAIN entries :
                (/\ ~Row(entries[i].video_id).present
                 /\ entries[i].published # NoDate
                 /\ entries[i].published > MAX_VIDEO_AGE_DAYS)
                => /\ videos'[entries[i].video_id].present
                   /\ videos'[entries[i].video_id].summary_status = "skipped"
                   /\ entries[i].video_id \notin Emitted
       /\ \A v \in Videos :
            (Row(v).present /\ Row(v).summary_status = "skipped") =>
                /\ videos'[v].present
                /\ videos'[v].summary_status = "skipped"
                /\ v \notin Emitted]_vars

\* a later poll has fetched a feed that lists a video the age filter skipped
C8_Witness ==
    /\ pc = "poll_scan"
    /\ \E i \in DOMAIN entries :
         /\ Row(entries[i].video_id).present
         /\ Row(entries[i].video_id).summary_status = "skipped"
         /\ IsTooOld(entries[i].published)

\* C9 as stated: for a row the age filter stored as skipped no publish call
\* is ever made, in any cycle or after any restart, and its output_status
\* stays pending.
C9_SkippedNeverPublished ==
    [][\A v \in Videos :
         (Row(v).present /\ Row(v).summary_status = "skipped") =>
            /\ videos'[v].present
            /\ videos'[v].output_status = "pending"
            /\ ~(event'.vid = v /\ event'.op \in PublishCallOps)]_vars

\* C9, amended: for a row the age filter stored as skipped no poll cycle,
\* before or after a restart, summarizes or publishes the video, and the row
\* stays as it is, output_status pending; the startup seed may still publish
\* the video.
C9_SkippedNeverPolled ==
    [][\A v \in Videos :
         (Row(v).present /\ Row(v).summary_status = "skipped") =>
            /\ videos'[v] = Row(v)
            /\ Row(v).output_status = "pending"
            /\ v \notin Emitted
            /\ ~(event'.vid = v /\ event'.op \in PollPipelineOps)]_vars

\* after a restart run_seed has published a video whose row the age filter
\* had stored as skipped; the row still says pending
C9_Witness ==
    /\ event.op = "seed_ok"
    /\ Row(event.vid).present
    /\ Row(event.vid).summary_status = "skipped"
    /\ Row(event.vid).output_status = "pending"

\* C10: get_transcript never raises and never returns empty text, whatever
\* tier 1 and tier 2 do and whatever the title and the description are.
C10_NeverRaisesNeverEmpty ==
    result # NotCalled =>
        /\ result # Raised
        /\ result.tier \in {1, 2, 3}
        /\ result.text # Null
        /\ result.text # ""

\* the text tier k has for the call under way ("" when it has none)
TierText(k) ==
    IF k = 1
    THEN IF Tier1Body(call.t1) \in {NoResult, Raised} THEN "" ELSE Tier1Body(call.t1).text
    ELSE IF k = 2
    THEN IF ~call.t2.enabled \/ Tier2Body(call.t2) \in {NoResult, Raised}
         THEN "" ELSE Tier2Body(call.t2).text
    ELSE FetchTier3(call.title, call.description).text

\* sub occurs in s
Contains(s, sub) ==
    \E i \in 1 .. (Len(s) - Len(sub) + 1) : SubSeq(s, i, i + Len(sub) - 1) = sub

\* C11: get_transcript tries the tiers in the order 1, 2, 3, tier 2 only
\* after tier 1 gave no text and tier 3 only after tiers 1 and 2 gave none,
\* and returns the lowest tier that gave a non-empty text: a tier with
\* empty text does not win.
C11_LowestNonEmptyTierWins ==
    result # NotCalled =>
        LET att == TiersAttempted(call.t1, call.t2)
        IN  /\ att \in {<<1>>, <<1, 2>>, <<1, 2, 3>>}
            /\ 2 \in Range(att) => TierText(1) = ""
            /\ 3 \in Range(att) => (TierText(1) = "" /\ TierText(2) = "")
            /\ result.tier = att[Len(att)]
            /\ TierText(result.tier) # ""
            /\ \A k \in 1 .. (result.tier - 1) : TierText(k) = ""

\* C12: when tier 1 fails for good and tier 2 is disabled get_transcript
\* returns tier 3 with the text built from the title and the description
\* alone; for title "T" and an empty description the text contains "T" and
\* the no-description marker.
C12_Tier3Fallback ==
    (result # NotCalled /\ call.t1.kind = "permanent" /\ ~call.t2.enabled) =>
        /\ result.tier = 3
        /\ result.text = "Video Title: " \o call.title \o "\n\nDescription:\n"
                         \o (IF call.description = ""
                             THEN "(no description available)"
                             ELSE call.description)
        /\ (call.title = "T" /\ call.description = "") =>
               /\ Contains(result.text, "T")
               /\ Contains(result.text, "(no description available)")

\* the call of scenario C has returned
C12_Witness ==
    /\ result # NotCalled
    /\ call.t1.kind = "permanent"
    /\ ~call.t2.enabled
    /\ call.title = "T"
    /\ call.description = ""
    /\ result.tier = 3

(***************************************************************************)
(* The tier-1 retry sequence of one item with rotating egress identities,  *)
(* as the written specification describes it (section 4.3).  The           *)
(* transcripts.py at hand makes one request per item and has no rotation   *)
(* pool; monitor.main calls transcripts.init_proxies, which it does not    *)
(* define.                                                                 *)
(***************************************************************************)
\* the maximum attempt count of the written specification (config.py sets none)
MaxAttempts == 3
\* identities in the rotation pool
PoolSize == 2
Pool == 1 .. PoolSize
\* the identity of a request when rotation is off: the direct connection
Direct == 0

\* the identities the next attempt may draw: the pool without the avoided
\* ones, the whole pool again once all were tried
CandidatesAnyOfPool(rotation, avoided) == IF rotation THEN Pool ELSE {Direct}

Candidates(rotation, avoided) ==
    IF ~rotation THEN {Direct}
    ELSE IF Pool \ avoided = {} THEN Pool
    ELSE Pool \ avoided

\* the avoided set after drawing id: reset first when the pool was exhausted
Avoid(rotation, avoided, id) ==
    IF ~rotation THEN avoided
    ELSE IF Pool \ avoided = {} THEN {id}
    ELSE avoided \cup {id}

\* what one capture request can answer
AttemptOutcomes == {"ok", "permanent", "transient_a", "transient_b"}

InitRetry ==
    /\ channels = Untracked
    /\ shutdown_requested = FALSE
    /\ credentials = RequiredKeys
    /\ backend = "trello"
    /\ pc = "tier1_attempt"
    /\ starts = 0
    /\ cycles = 0
    /\ videos = [v \in Videos |-> NoRow]
    /\ cards = [v \in Videos |-> 0]
    /\ summarized = [v \in Videos |-> 0]
    /\ trello_ids = {}
    /\ seen_this_run = {}
    /\ chan = 1
    /\ entries = <<>>
    /\ new_videos = <<>>
    /\ event = Ev("init", Null)
    /\ \E rotation \in BOOLEAN, ti \in {"", "T"} :
         call = [kind |-> "tier1", rotation |-> rotation, title |-> ti,
                 attempts |-> 0, avoided |-> {}, used |-> <<>>,
                 last_error |-> Null]
    /\ result = NotCalled

RetryFrame ==
    UNCHANGED <<channels, shutdown_requested, credentials, backend, starts, cycles,
                videos, cards, summarized, SeedLocals, chan, entries, new_videos>>

\* one capture request with a drawn identity, and what follows its answer
Tier1Attempt ==
    /\ pc = "tier1_attempt"
    /\ \E id \in Candidates(call.rotation, call.avoided), out \in AttemptOutcomes :
         /\ call' = [call EXCEPT !.attempts = @ + 1,
                                 !.avoided = Avoid(call.rotation, @, id),
                                 !.used = Append(@, id),
                                 !.last_error = IF out = "ok" THEN @ ELSE out]
         /\ IF out = "ok"
            THEN /\ pc' = "returned"
                 /\ result' = [tier |-> 1, text |-> "hello world"]
            ELSE /\ result' = result
                 /\ pc' = IF out = "permanent" \/ call.attempts + 1 >= MaxAttempts
                          THEN "fall_through" ELSE "tier1_backoff"
         /\ event' = Ev("tier1_" \o out, Null)
    /\ RetryFrame

\* the sleep between two attempts
Tier1Backoff ==
    /\ pc = "tier1_backoff"
    /\ pc' = "tier1_attempt"
    /\ event' = Ev("tier1_backoff", Null)
    /\ UNCHANGED <<call, result>>
    /\ RetryFrame

\* tier 1 has failed: tier 2 is disabled, tier 3 answers
Tier1FallThrough ==
    /\ pc = "fall_through"
    /\ pc' = "returned"
    /\ result' = FetchTier3(call.title, "")
    /\ event' = Ev("tier1_fall_through", Null)
    /\ UNCHANGED call
    /\ RetryFrame

NextRetry ==
    \/ Tier1Attempt
    \/ Tier1Backoff
    \/ Tier1FallThrough

SpecRetry == InitRetry /\ [][NextRetry]_vars


\* C13: when tier 1 fails with a transient error the request is repeated
\* until it succeeds or MaxAttempts requests were made, never more than
\* that, and then get_transcript goes on to the next tier: with a captions
\* service that keeps failing transiently, MaxAttempts requests are made.
C13_TransientIsRetried ==
    (result # NotCalled /\ call.t1.kind = "transient") =>
        /\ Tier1Attempts(call.t1) <= MaxAttempts
        /\ Tier1Attempts(call.t1) = MaxAttempts
        /\ result.tier \in {2, 3}

C15_HappyPathIsDelivered ==
    (/\ event.op \in DeliveryOps
     /\ Tier1Of(event.vid).kind = "ok"
     /\ JoinSnippets(Tier1Of(event.vid).snippets) # "") =>
        /\ Row(event.vid).present
        /\ Row(event.vid).transcript_tier = 1
        /\ Row(event.vid).summary_status = "done"
        /\ Row(event.vid).output_status = "done"
        /\ Row(event.vid).output_ref # Null

\* C16: with either backend, process_video's publish call and the seeder's
\* publish call are accepted and, the destination being healthy, return a
\* reference.  No poll publish raises (the destination plays no part in the
\* ways it can raise) and its reference is stored; with the dashboard, which
\* has no remote destination that could fail, no seeder publish raises.
C16_BackendsInterchangeable ==
    /\ event.op \in {"published", "publish_failed"} =>
          /\ event.op = "published"
          /\ Row(event.vid).output_ref # Null
    /\ backend = "dashboard" => event.op # "seed_publish_raises"

\* steps in which summarizer.summarize was called
GenerationCallOps == {"summarized", "summarize_failed", "seed_summarize_raises",
                      "seed_publish_raises", "seed_store_raises", "seed_ok"}

\* the row of v has a failed status
Failed(v) ==
    /\ Row(v).present
    /\ (Row(v).summary_status = "failed" \/ Row(v).output_status = "failed")

\* C17 as stated: summary_status processing is written before the summarizer
\* is called, in a poll cycle and in the seeder alike: every step that calls
\* the summarizer for a video starts in a state whose row for it says
\* processing (so a crash during the call leaves processing behind).
C17_ProcessingBeforeEveryCall ==
    [][\A v \in Videos :
         (event'.vid = v /\ event'.op \in GenerationCallOps) =>
             (Row(v).present /\ Row(v).summary_status = "processing")]_vars

\* C17, amended: in a poll cycle summary_status processing is written before
\* the summarizer is called: while process_video's call is under way the row
\* says processing, and a crash during the call leaves it so.  The seeder
\* calls the summarizer without writing a status first.
C17_ProcessingBeforePollCall ==
    [][/\ pc = "pv_summarize" =>
            /\ Row(Head(new_videos)).present
            /\ Row(Head(new_videos)).summary_status = "processing"
       /\ (pc = "pv_summarize" /\ pc' = "down") =>
            videos'[Head(new_videos)].summary_status = "processing"
       /\ \A v \in Videos :
            (event'.vid = v /\ event'.op \in {"summarized", "summarize_failed"}) =>
                Row(v).summary_status = "processing"]_vars

\* the process died while process_video's summarizer call was under way
C17_Witness ==
    /\ pc = "down"
    /\ \E v \in Videos : Row(v).present /\ Row(v).summary_status = "processing"

\* C18: when the summarizer raises in a poll cycle the row gets
\* summary_status failed and the error text, no publish is called for the
\* video (not in this pass, and not while the row says failed), and the
\* cycle goes on with the candidates that remain.
C18_GenerationFailureIsRecorded ==
    [][\A v \in Videos :
         /\ (event'.vid = v /\ event'.op = "summarize_failed") =>
               /\ videos'[v].present
               /\ videos'[v].summary_status = "failed"
               /\ videos'[v].summary_error # Null
               /\ cards' = cards
               /\ new_videos' = Tail(new_videos)
               /\ pc' = IF Tail(new_videos) = <<>> THEN "sleep" ELSE "pv_transcript"
         /\ (Row(v).present /\ Row(v).summary_status = "failed") =>
               ~(event'.vid = v /\ event'.op \in {"published", "publish_failed"})]_vars

\* the summarizer has failed for one candidate and another one is next
C18_Witness ==
    /\ event.op = "summarize_failed"
    /\ Row(event.vid).summary_status = "failed"
    /\ pc = "pv_transcript"
    /\ new_videos # <<>>

\* C19: when process_video's publish call raises the row gets output_status
\* failed and the error text; summary_status stays done and summary_text and
\* the token counters stay as they were.
C19_PublishFailureIsRecorded ==
    [][\A v \in Videos :
         (event'.vid = v /\ event'.op = "publish_failed") =>
            /\ videos'[v].present
            /\ videos'[v].output_status = "failed"
            /\ videos'[v].output_error # Null
            /\ Row(v).summary_status = "done"
            /\ videos'[v].summary_status = "done"
            /\ videos'[v].summary_text = Row(v).summary_text
            /\ videos'[v].tokens_input = Row(v).tokens_input
            /\ videos'[v].tokens_output = Row(v).tokens_output]_vars

\* a publish call has just raised for a summarized video
C19_Witness ==
    /\ event.op = "publish_failed"
    /\ Row(event.vid).output_status = "failed"
    /\ Row(event.vid).summary_status = "done"
    /\ Row(event.vid).summary_text = SummaryText

\* C20 as stated: for a video whose row has a failed status no later poll
\* cycle and no later start extracts, summarizes or publishes: once the
\* video is no candidate of the cycle under way, no step processes it.
C20_FailedNeverRetried ==
    [][\A v \in Videos :
         (Failed(v) /\ v \notin Range(new_videos)) =>
            /\ v \notin Emitted
            /\ ~(event'.vid = v /\ event'.op \in PollPipelineOps \cup SeedProcessOps)]_vars

\* C20, amended: for a video whose row has a failed status no later poll
\* cycle extracts, summarizes or publishes, before or after a restart: it is
\* never a candidate again and its row stays as it is.  The startup seed
\* does not look at the table and may process the video again.
C20_FailedNeverPolledAgain ==
    [][\A v \in Videos :
         (Failed(v) /\ v \notin Range(new_videos)) =>
            /\ v \notin Emitted
            /\ videos'[v] = Row(v)
            /\ ~(event'.vid = v /\ event'.op \in PollPipelineOps)]_vars

\* a later poll has fetched a feed that lists a video with a failed status
C20_Witness ==
    /\ pc = "poll_scan"
    /\ cycles > 1
    /\ \E i \in DOMAIN entries : Failed(entries[i].video_id)

(***************************************************************************)
(* Discovery and the channels table.                                       *)
(***************************************************************************)
\* C21: every candidate the poll returns has its row in the videos table
\* when the poll returns it, so every candidate of a cycle is recorded before
\* process_video starts for any of them; rows are never deleted and the poll
\* returns only ids without a row, so after a crash anywhere in the cycle no
\* later poll returns the item again.
C21_CandidatesRecordedFirst ==
    [][/\ \A v \in Emitted : ~IsVideoKnown(videos, v) /\ IsVideoKnown(videos', v)
       /\ \A i \in DOMAIN new_videos' : IsVideoKnown(videos', new_videos'[i])
       /\ \A v \in Videos : IsVideoKnown(videos, v) => IsVideoKnown(videos', v)]_vars

\* a second run has fetched a feed that lists an item whose generation an
\* earlier run was killed in
C21_Witness ==
    /\ starts = 2
    /\ pc = "poll_scan"
    /\ \E i \in DOMAIN entries :
         /\ IsVideoKnown(videos, entries[i].video_id)
         /\ videos[entries[i].video_id].summary_status = "processing"

\* the steps in which the fetch of a channel's feed failed: it raised or
\* answered an HTTP error status, or no response arrived
FetchFailedOps == {"fetch_failed", "fetch_no_response"}

\* the row of channel c before the poll's upsert_channel
RowBeforePoll(c) == UpsertChannel(channels, c)[c]

\* C22: when the fetch of a channel's feed fails, the channel adds no
\* candidate to the cycle's list, its error_count goes up by one, and the
\* poll goes on to the next configured channel of the same cycle.
C22_FailedFetchCountedOthersPolled ==
    [][event'.op \in FetchFailedOps =>
         LET c == Channels[chan]
         IN  /\ new_videos' = new_videos
             /\ channels'[c].present
             /\ channels'[c].error_count = RowBeforePoll(c).error_count + 1
             /\ chan < Len(Channels) => (pc' = "poll_fetch" /\ chan' = chan + 1)]_vars

\* C23: after the poll of a channel, error_count is 0 and last_checked_at
\* is the time of this poll when the fetch succeeded; when the fetch failed,
\* error_count is one more than before and last_checked_at is what it was.
C23_CounterAndTimestampAfterPoll ==
    [][LET c == Channels[chan]
       IN  /\ event'.op = "poll_scan" =>
                /\ channels'[c].error_count = 0
                /\ channels'[c].last_checked_at = Now
                /\ channels'[c].last_checked_at > channels[c].last_checked_at
           /\ event'.op \in FetchFailedOps =>
                /\ channels'[c].error_count = RowBeforePoll(c).error_count + 1
                /\ channels'[c].last_checked_at = RowBeforePoll(c).last_checked_at]_vars

\* C24: a channel whose row has enabled off is not fetched: from the point
\* where the poll reaches it, no fetch of its feed is made.
C24_PausedChannelNotFetched ==
    [][(/\ pc = "poll_fetch"
        /\ channels[Channels[chan]].present
        /\ ~channels[Channels[chan]].enabled)
       => (pc' # "poll_scan" /\ event'.op \notin FetchFailedOps)]_vars

(***************************************************************************)
(* monitor.main: the loop, shutdown, startup.                              *)
(***************************************************************************)
\* C25: an exception that leaves run_once does not end the process: main
\* goes to its sleep, and from the sleep, as long as no shutdown was
\* requested, the only way on is the next cycle.
C25_CycleExceptionIsSurvived ==
    [][/\ event'.op = "cycle_raised" =>
            /\ pc' = "sleep"
            /\ shutdown_requested' = shutdown_requested
            /\ videos' = videos
       /\ (pc = "sleep" /\ ~shutdown_requested) =>
            \/ pc' = "poll_fetch" /\ cycles' = cycles + 1
            \/ pc' = "sleep" /\ shutdown_requested']_vars

\* a cycle has just raised, no shutdown was requested and a next cycle is due
C25_Witness ==
    /\ event.op = "cycle_raised"
    /\ pc = "sleep"
    /\ ~shutdown_requested
    /\ cycles < MaxCycles

\* process_video is under way for the candidate at the head of the list
InProgress(v) ==
    /\ pc \in {"pv_processing", "pv_summarize", "pv_publish"}
    /\ v = Head(new_videos)

\* the steps that begin an item and a cycle
ItemStarts == pc = "pv_transcript" /\ pc' = "pv_processing"
CycleStarts == cycles' = cycles + 1

\* C26 as stated: once shutdown is requested no item and no cycle is
\* started, the process ends, and every row of the videos table that was
\* there keeps its values.
C26_ShutdownKeepsEveryRecord ==
    /\ [][shutdown_requested =>
             /\ ~ItemStarts
             /\ ~CycleStarts
             /\ \A v \in Videos : IsVideoKnown(videos, v) => videos'[v] = videos[v]]_vars
    /\ (shutdown_requested ~> pc = "exited")

\* C26: once shutdown is requested no item and no cycle is started, the
\* process ends, and every row of the videos table that was there keeps its
\* values, except the row of the item process_video is working on, which
\* process_video goes on writing until it returns.
C26_ShutdownFinishesCurrentItem ==
    /\ [][shutdown_requested =>
             /\ ~ItemStarts
             /\ ~CycleStarts
             /\ \A v \in Videos :
                  (IsVideoKnown(videos, v) /\ ~InProgress(v)) => videos'[v] = videos[v]]_vars
    /\ (shutdown_requested ~> pc = "exited")

\* the loop was left on a shutdown request while candidates were waiting,
\* and the process has ended
C26_Witness ==
    /\ pc = "exited"
    /\ event.op = "exit_0"
    /\ \E v \in Videos :
         /\ IsVideoKnown(videos, v)
         /\ videos[v].summary_status = "pending"
         /\ videos[v].transcript_tier = NullInt

(***************************************************************************)
(* seeder.run_seed: failures and the missing capability.                   *)
(***************************************************************************)
\* the entries of run_seed's loop in which _process_seed_entry raised
SeedFailureOps == {"seed_summarize_raises", "seed_publish_raises",
                   "seed_store_raises"}

\* C27: when _process_seed_entry raises for an entry, run_seed goes on as
\* after any other entry: to the next entry of the channel, after the last
\* one to the next channel, after the last channel to main's loop.
C27_SeedFailureDoesNotAbort ==
    [][event'.op \in SeedFailureOps =>
         /\ entries' = Tail(entries)
         /\ videos' = videos
         /\ IF Tail(entries) # <<>>
            THEN pc' = "seed_entry" /\ chan' = chan /\ trello_ids' = trello_ids
            ELSE IF chan < Len(Channels)
            THEN pc' = "seed_fetch" /\ chan' = chan + 1 /\ trello_ids' = trello_ids
            ELSE pc' \in {"poll_fetch", "sleep"}]_vars

\* an entry has failed and the next entry of the same channel is up
C27_Witness ==
    /\ event.op \in SeedFailureOps
    /\ pc = "seed_entry"
    /\ entries # <<>>

\* C28: with the dashboard backend, which has no get_existing_video_ids,
\* run_seed can always take its first step, gets the empty set there
\* whatever the destination holds, and keeps it for the whole backfill.
C28_MissingCapabilityIsEmptySet ==
    [][backend = "dashboard" =>
         /\ pc = "seed_init" => ENABLED RunSeedBegin
         /\ (pc = "seed_init" /\ pc' = "seed_fetch") => trello_ids' = {}
         /\ pc' \in {"seed_fetch", "seed_entry"} => trello_ids' = {}]_vars

\* run_seed has read the dedup set from a dashboard backend that has
\* delivered an item before
C28_Witness ==
    /\ backend = "dashboard"
    /\ pc = "seed_fetch"
    /\ chan = 1
    /\ trello_ids = {}
    /\ \E v \in Videos : cards[v] > 0

\* C29: run_seed is entered by the start of the process only and not
\* again once it is left; while it runs no poll cycle has begun; the first
\* poll cycle begins out of run_seed and nowhere else; a run_seed that
\* raises is followed by the first poll cycle like one that returns.
C29_BackfillOnceBeforeFirstCycle ==
    [][/\ (pc' = "seed_init" /\ pc # "seed_init") =>
            (pc = "down" /\ starts' = starts + 1)
       /\ (pc = "down" /\ pc' \notin {"down", "exited"}) => pc' = "seed_init"
       /\ pc \notin SeedPcs \cup {"down"} => pc' \notin SeedPcs
       /\ pc' \in SeedPcs => (cycles' = 0 /\ new_videos' = <<>>)
       /\ (cycles = 0 /\ cycles' = 1) => pc \in SeedPcs
       /\ (event'.op = "seed_raised" /\ ~shutdown_requested) =>
            (pc' = "poll_fetch" /\ cycles' = 1)]_vars

\* run_seed has raised and the first poll cycle has begun
C29_Witness ==
    /\ event.op = "seed_raised"
    /\ pc = "poll_fetch"
    /\ cycles = 1

\* the settings the active collaborators use: the summarizer's client its
\* API key; TrelloBackend key and token in every request and the list id in
\* publish; DashboardBackend none
RequiredFor(b) ==
    {"ANTHROPIC_API_KEY"} \cup (IF b = "trello" THEN TrelloKeys ELSE {})

\* C30: a start with a setting missing that the active summarizer or
\* backend uses ends at once with exit status 1 and leaves the table, the
\* destination and the call counts as they were; so the process is past its
\* startup (in the backfill or in a poll cycle) only with all of them set.
C30_MissingCredentialExitsFirst ==
    [][/\ (pc = "down" /\ starts' = starts + 1
            /\ ~(RequiredFor(backend) \subseteq credentials)) =>
            /\ pc' = "exited"
            /\ event'.op = "exit_1"
            /\ videos' = videos
            /\ cards' = cards
            /\ summarized' = summarized
       /\ pc' \notin {"down", "exited"} =>
            RequiredFor(backend') \subseteq credentials']_vars

\* the Trello backend was started without its token and the process has
\* ended with status 1
C30_Witness ==
    /\ backend = "trello"
    /\ "TRELLO_TOKEN" \notin credentials
    /\ pc = "exited"
    /\ event.op = "exit_1"

(***************************************************************************)
(* The store as a shared resource.                                         *)
(***************************************************************************)
RollbackOps == {"rollback_" \o k : k \in StoreKinds}

\* C31: every helper of database.py is one transaction: when the write
\* fails it is rolled back and every row keeps all its values, and the
\* committed table, which is all another connection can read, changes only
\* by the commit of a whole helper call, never by a part of one.
C31_StoreOperationIsOneTransaction ==
    [][/\ event'.op \in RollbackOps => videos' = videos
       /\ videos' # videos =>
            /\ call \in StoreCalls
            /\ videos' = ApplyCall(videos, call)
            /\ \A v \in Videos : v # call.vid => videos'[v] = videos[v]]_vars

\* an update_summary for a summarized row has failed and was rolled back
C31_Witness ==
    /\ event.op = "rollback_update_summary"
    /\ Row(event.vid).present
    /\ Row(event.vid).summary_status = "done"
    /\ Row(event.vid).summary_text = SummaryText
    /\ Row(event.vid).tokens_input = TokensIn

\* run_once has returned (it did not raise) and main is at its sleep
CycleCompleted == pc = "sleep" /\ event.op # "cycle_raised"

\* the row of v as poll_all_channels inserted it, and its terminal statuses
Pending(v) == Row(v).present /\ Row(v).summary_status = "pending"
Terminal(v) == Row(v).present /\ Row(v).summary_status \in {"done", "failed"}

\* C32: as long as cycles keep running to their end, every row the poll
\* inserted as a pending candidate gets summary_status done or failed at
\* some time, also when the cycle that found it was cut short before
\* process_video reached it.
C32_NoCandidateIsDropped ==
    ([]<>CycleCompleted) => \A v \in Videos : Pending(v) ~> Terminal(v)

(***************************************************************************)
(* The item pipeline: what holds of every row.                             *)
(***************************************************************************)
\* C33: the list of candidates run_once works through holds no id twice,
\* whatever the feeds list, so process_video runs at most once per id in a
\* cycle; and a row whose summary_status is done is never written back to
\* processing.
C33_OncePerCycle ==
    [][/\ \A i, j \in DOMAIN new_videos' :
            i # j => new_videos'[i] # new_videos'[j]
       /\ \A v \in Videos :
            (Row(v).present /\ Row(v).summary_status = "done") =>
                videos'[v].summary_status # "processing"]_vars

\* C34: in every state a row whose output_status is done or failed has
\* summary_status done: process_video calls publish only for a row with
\* summary_status done and output_status pending, and no step takes the
\* summary_status of a delivered row away from done.
C34_DeliveredImpliesGenerated ==
    [][\A v \in Videos :
         /\ (videos'[v].present /\ videos'[v].output_status \in {"done", "failed"}) =>
               videos'[v].summary_status = "done"
         /\ (event'.vid = v /\ event'.op \in {"published", "publish_failed"}) =>
               /\ Row(v).present
               /\ Row(v).summary_status = "done"
               /\ Row(v).output_status = "pending"]_vars

\* C35: in every state a row whose output_status is done has an output_ref
\* that is neither NULL nor empty, whether process_video or the seeder's
\* mark_video_seen wrote the status.
C35_DoneHasReference ==
    \A v \in Videos :
        (Row(v).present /\ Row(v).output_status = "done") =>
            (Row(v).output_ref # Null /\ Row(v).output_ref # "")

\* C36: in every state, also the one a process that died in the poll
\* leaves behind, a row whose published_at is before the age cutoff has
\* summary_status skipped: no too-old item is in the table as pending.
C36_TooOldRowIsSkipped ==
    \A v \in Videos :
        (Row(v).present /\ IsTooOld(Row(v).published_at)) =>
            Row(v).summary_status = "skipped"

(***************************************************************************)
(* Shutdown during the backfill; the age check.                            *)
(***************************************************************************)
\* C37: once shutdown is requested while run_seed runs and the call that
\* was under way at the request has returned, run_seed processes no further
\* entry, and no poll cycle is started.
C37_ShutdownStopsBackfill ==
    [][/\ (shutdown_requested /\ event.op # "sigterm") =>
            event'.op \notin SeedProcessOps
       /\ shutdown_requested => ~CycleStarts]_vars

\* C38: _is_too_old answers True exactly when the maximum age is greater
\* than 0, the entry has a published time and that time is before now
\* minus the maximum age; the loop stores the entry as skipped exactly then
\* and returns it as a candidate otherwise.  So with a maximum age of 0
\* nothing is stored as skipped, and an entry without a published time is
\* returned.  For the configured maximum age the answer is that of IsTooOld
\* for the days between the published time and now.
C38_AgeCheck ==
    event.op = "is_too_old" =>
        LET too_old == result.text = "True"
            skipped == Row("v1").present /\ Row("v1").summary_status = "skipped"
        IN  /\ result.text \in {"True", "False"}
            /\ too_old <=> (/\ call.max_age_days > 0
                            /\ call.published_at # NoDate
                            /\ call.published_at < call.now - call.max_age_days)
            /\ skipped <=> too_old
            /\ new_videos = (IF too_old THEN <<>> ELSE <<"v1">>)
            /\ ~too_old => ~Row("v1").present
            /\ call.max_age_days = 0 => ~skipped
            /\ call.published_at = NoDate => new_videos = <<"v1">>
            /\ (call.max_age_days = MAX_VIDEO_AGE_DAYS /\ call.published_at # NoDate) =>
                  (too_old <=> IsTooOld(call.now - call.published_at))

\* with a maximum age of 0 an entry published days ago was returned
C38_Witness ==
    /\ event.op = "is_too_old"
    /\ call.max_age_days = 0
    /\ call.published_at # NoDate
    /\ call.published_at + MAX_VIDEO_AGE_DAYS < call.now
    /\ new_videos = <<"v1">>

====
